---- MODULE Spec2Model ----
(***************************************************************************)
(* Model of the fee-proxy router program (programs/dex).                   *)
(*                                                                         *)
(* Every u64 is kept as the sequence of its U64Bytes little-endian bytes,  *)
(* exactly as u64::from_le_bytes / to_le_bytes lay it out, so that the     *)
(* 64-bit width of the fee arithmetic is modelled exactly.  A public key   *)
(* is the sequence of its KeyLen bytes, an account's data is a sequence of *)
(* bytes, and borsh (de)serialisation is modelled on those bytes.          *)
(***************************************************************************)
EXTENDS Integers, Sequences, FiniteSets, TLC

----------------------------------------------------------------------------
(* Byte-level arithmetic: u64 values as little-endian byte sequences.      *)

\* width of a u64 in bytes
U64Bytes == 8

\* width of a Pubkey in bytes
KeyLen == 32

\* <<b, b, ..., b>> of length n
Rep(b, n) == [i \in 1..n |-> b]

\* the u64 zero
U64Zero == Rep(0, U64Bytes)

\* the little-endian bytes of the small number v (v < 256^n)
RECURSIVE ToLE(_, _)
ToLE(v, n) == IF n = 0 THEN <<>> ELSE <<v % 256>> \o ToLE(v \div 256, n - 1)

\* a * m + c over the mathematical integers, a little-endian, 0 <= m, c < 256;
\* the result has Len(a) + 1 bytes (the last one is the carry out)
RECURSIVE MulCarry(_, _, _)
MulCarry(a, m, c) ==
    IF a = <<>> THEN <<c>>
    ELSE LET p == Head(a) * m + c
         IN  <<p % 256>> \o MulCarry(Tail(a), m, p \div 256)

\* floor(a / d) for the bytes a[1..i] with incoming remainder r, 0 < d < 256
RECURSIVE DivFrom(_, _, _, _)
DivFrom(a, d, i, r) ==
    IF i = 0 THEN <<>>
    ELSE LET cur == r * 256 + a[i]
         IN  DivFrom(a, d, i - 1, cur % d) \o <<cur \div d>>

\* floor(a / d), same length as a
DivLE(a, d) == DivFrom(a, d, Len(a), 0)

\* a - b with incoming borrow: Len(a) result bytes followed by the borrow out
RECURSIVE SubBorrow(_, _, _)
SubBorrow(a, b, br) ==
    IF a = <<>> THEN <<br>>
    ELSE LET d == Head(a) - Head(b) - br
         IN  <<d % 256>> \o SubBorrow(Tail(a), Tail(b), IF d < 0 THEN 1 ELSE 0)

\* a + b with incoming carry: Len(a) result bytes followed by the carry out
RECURSIVE AddCarry(_, _, _)
AddCarry(a, b, c) ==
    IF a = <<>> THEN <<c>>
    ELSE LET s == Head(a) + Head(b) + c
         IN  <<s % 256>> \o AddCarry(Tail(a), Tail(b), s \div 256)

\* a < b on u64 (the comparison of pump.rs line 91)
U64Less(a, b) == SubBorrow(a, b, 0)[U64Bytes + 1] = 1

\* u64::checked_sub: Some(difference) or None
CheckedSub(a, b) ==
    LET r == SubBorrow(a, b, 0)
    IN  [some |-> r[U64Bytes + 1] = 0, v |-> SubSeq(r, 1, U64Bytes)]

\* u64::checked_add: Some(sum) or None
CheckedAdd(a, b) ==
    LET r == AddCarry(a, b, 0)
    IN  [some |-> r[U64Bytes + 1] = 0, v |-> SubSeq(r, 1, U64Bytes)]

----------------------------------------------------------------------------
(* Identities and accounts.                                                *)

\* number of wallet identities that take part in calls
NumKeys == 2

\* the Pubkey whose 32 bytes all equal b
Key(b) == Rep(b, KeyLen)

WalletIds == 1..NumKeys
Wallets == {Key(i) : i \in WalletIds}

\* the account that holds the fee configuration record
ConfigKey == Key(200)
\* the system program (Pubkey of 32 zero bytes)
SystemKey == Key(0)
\* a venue account of the forwarded suffix
VenueKey == Key(150)

\* an AccountInfo as far as the program reads it
Acct(k, s, w) == [key |-> k, is_signer |-> s, is_writable |-> w]

----------------------------------------------------------------------------
(* The configuration record and its borsh encoding.                        *)

\* size of the encoded record: fee_rate (1 byte) followed by fee_wallet
ConfigLen == 1 + KeyLen

\* TradeFeeState / ProtocolConfig: both structs have the same two fields
TradeFeeState(rate, wallet) == [fee_rate |-> rate, fee_wallet |-> wallet]

\* BorshDeserialize::try_from_slice: fails on a short slice and on a slice
\* with bytes left over after the record
TryFromSlice(data) ==
    IF Len(data) # ConfigLen
    THEN [ok |-> FALSE, v |-> TradeFeeState(0, SystemKey)]
    ELSE [ok |-> TRUE,
          v  |-> TradeFeeState(data[1], SubSeq(data, 2, ConfigLen))]

\* BorshSerialize::serialize into the mutable slice data: the bytes that fit
\* are written in place, the bytes of data beyond the record are kept, and
\* the write fails when the slice is shorter than the record
Serialize(cfg, data) ==
    LET bytes == <<cfg.fee_rate>> \o cfg.fee_wallet
        n     == IF Len(data) < ConfigLen THEN Len(data) ELSE ConfigLen
    IN  [ok   |-> Len(data) >= ConfigLen,
         data |-> SubSeq(bytes, 1, n) \o SubSeq(data, n + 1, Len(data))]

\* the data of the account with key k: only the config account carries data
AccountData(k, cfg) == IF k = ConfigKey THEN cfg ELSE <<>>

\* the lamports of the account with key k
Lamports(lam, k) == IF k \in Wallets THEN lam[k[1]] ELSE U64Zero

----------------------------------------------------------------------------
(* Cross-program invocations issued by a call, in the order of issue.      *)

Cpi(kind, program, from, to, amt, data, accounts, ok) ==
    [kind |-> kind, program |-> program, from |-> from, to |-> to,
     lamports |-> amt, data |-> data, accounts |-> accounts, ok |-> ok]

\* system_instruction::transfer(from, to, lamports) through invoke
TransferCpi(from, to, amt, ok) ==
    Cpi("transfer", "SYSTEM_PROGRAM", from, to, amt, <<>>, <<>>, ok)

\* the forwarded venue instruction through invoke
VenueCpi(program, data, accounts, ok) ==
    Cpi("venue", program, SystemKey, SystemKey, U64Zero, data, accounts, ok)

\* the balances after the system program moved amt from one wallet to another
Transfer(lam, from, to, amt) ==
    LET debited == [lam EXCEPT ![from[1]] = CheckedSub(lam[from[1]], amt).v]
    IN  IF to \in Wallets
        THEN [debited EXCEPT ![to[1]] = CheckedAdd(debited[to[1]], amt).v]
        ELSE debited

\* whether the system program carries the transfer out
TransferOk(lam, from, to, amt) ==
    /\ from \in Wallets
    /\ CheckedSub(lam[from[1]], amt).some
    /\ (to \in Wallets /\ to # from) => CheckedAdd(lam[to[1]], amt).some

----------------------------------------------------------------------------
(* The Fee-Proxy Rewriter: instructions/pump.rs.                           *)

PUMPFUN_BUY_SELECTOR  == <<102, 6, 61, 18, 1, 218, 235, 234>>
PUMPFUN_SELL_SELECTOR == <<51, 230, 133, 164, 1, 127, 131, 173>>
PUMPAMM_BUY_SELECTOR  == <<102, 6, 61, 18, 1, 218, 235, 234>>
PUMPAMM_SELL_SELECTOR == <<51, 230, 133, 164, 1, 127, 131, 173>>

PUMP_SELECTOR          == <<82, 225, 119, 231, 78, 29, 45, 70>>
PUMP_AMM_SELECTOR      == <<129, 59, 179, 195, 110, 135, 61, 2>>
PUMP_SELL_SELECTOR     == <<83, 225, 119, 231, 78, 29, 45, 70>>
PUMP_AMM_SELL_SELECTOR == <<130, 59, 179, 195, 110, 135, 61, 2>>

\* what a call computed from its amount; done is FALSE while nothing was
FeeCalc(done, amount, product, fee, remaining) ==
    [done |-> done, amount |-> amount, product |-> product, fee |-> fee,
     remaining |-> remaining]

NoCalc == FeeCalc(FALSE, U64Zero, Rep(0, U64Bytes + 1), U64Zero, U64Zero)

\* what a handler is handed besides its arguments: the config account's
\* data (cfg), the balances (lam), whether the build checks integer overflow
\* (oc) and what the invoked programs will answer (env)
HandlerState(cfg, lam, oc, env) ==
    [cfg |-> cfg, lam |-> lam, oc |-> oc, env |-> env]

\* what a handler leaves behind: its result, the account state it wrote and
\* the invocations it issued
Outcome(result, cfg, lam, cpis, calc) ==
    [result |-> result, cfg |-> cfg, lam |-> lam, cpis |-> cpis,
     calc |-> calc, handler |-> "none"]

\* amount * fee_rate over the integers: U64Bytes + 1 bytes, of which the u64
\* multiplication keeps the low U64Bytes
FeeProduct(amount, rate) == MulCarry(amount, rate, 0)

\* whether amount * fee_rate leaves the u64 range
MulOverflows(amount, rate) == FeeProduct(amount, rate)[U64Bytes + 1] # 0

\* WrappedFee with the product divided by 10
WrappedFee_DivBy10(amount, rate) ==
    DivLE(SubSeq(FeeProduct(amount, rate), 1, U64Bytes), 10)

\* (amount * fee_rate as u64) / 100 as the wrapping build computes it
WrappedFee(amount, rate) ==
    DivLE(SubSeq(FeeProduct(amount, rate), 1, U64Bytes), 100)

\* the forwarded payload before the amount is written into it
ForwardBase(selector, instruction_data) ==
    selector \o SubSeq(instruction_data, U64Bytes + 1, Len(instruction_data))

\* RewriteAmount with the amount written at the start of the payload
RewriteAmount_AtOffset0(data, remaining) ==
    remaining \o SubSeq(data, U64Bytes + 1, Len(data))

\* data[8..16].copy_from_slice(&remaining_amount.to_le_bytes())
RewriteAmount(data, remaining) ==
    SubSeq(data, 1, U64Bytes) \o remaining
        \o SubSeq(data, 2 * U64Bytes + 1, Len(data))

\* ForwardAccounts with the fee receiver's account forwarded as well
ForwardAccounts_FromFourth(accounts) ==
    [i \in 1..(Len(accounts) - 3) |->
        Acct(accounts[i + 3].key, accounts[i + 3].is_signer,
             accounts[i + 3].is_writable)]

\* accounts[4..] as AccountMeta, in order
ForwardAccounts(accounts) ==
    [i \in 1..(Len(accounts) - 4) |->
        Acct(accounts[i + 4].key, accounts[i + 4].is_signer,
             accounts[i + 4].is_writable)]

\* FeeTransferAndForward going on to the venue after a failed transfer
FeeTransferAndForward_TransferErrorIgnored(program_id, accounts, instruction_data, selector, st, calc) ==
    LET fee_payer    == accounts[3]
        fee_receiver == accounts[4]
        xfer_ok == st.env.transfer
                   /\ TransferOk(st.lam, fee_payer.key, fee_receiver.key, calc.fee)
        xfer    == TransferCpi(fee_payer.key, fee_receiver.key, calc.fee,
                               xfer_ok)
        lam1    == IF xfer_ok
                   THEN Transfer(st.lam, fee_payer.key, fee_receiver.key, calc.fee)
                   ELSE st.lam
        data    == ForwardBase(selector, instruction_data)
        venue   == VenueCpi(program_id, RewriteAmount(data, calc.remaining),
                            ForwardAccounts(accounts), st.env.venue)
    IN  IF Len(data) < 2 * U64Bytes
        THEN Outcome("Panic", st.cfg, lam1, <<xfer>>, calc)
        ELSE IF ~st.env.venue
        THEN Outcome("VenueFailed", st.cfg, lam1, <<xfer, venue>>, calc)
        ELSE Outcome("Ok", st.cfg, lam1, <<xfer, venue>>, calc)

\* FeeTransferAndForward with the venue's error dropped
FeeTransferAndForward_VenueErrorDropped(program_id, accounts, instruction_data, selector, st, calc) ==
    LET fee_payer    == accounts[3]
        fee_receiver == accounts[4]
        xfer_ok == st.env.transfer
                   /\ TransferOk(st.lam, fee_payer.key, fee_receiver.key, calc.fee)
        xfer    == TransferCpi(fee_payer.key, fee_receiver.key, calc.fee,
                               xfer_ok)
        lam1    == Transfer(st.lam, fee_payer.key, fee_receiver.key, calc.fee)
        data    == ForwardBase(selector, instruction_data)
        venue   == VenueCpi(program_id, RewriteAmount(data, calc.remaining),
                            ForwardAccounts(accounts), st.env.venue)
    IN  IF ~xfer_ok
        THEN Outcome("TransferFailed", st.cfg, st.lam, <<xfer>>, calc)
        ELSE IF Len(data) < 2 * U64Bytes
        THEN Outcome("Panic", st.cfg, lam1, <<xfer>>, calc)
        ELSE Outcome("Ok", st.cfg, lam1, <<xfer, venue>>, calc)

\* process_with_fee, from the fee transfer on
FeeTransferAndForward(program_id, accounts, instruction_data, selector, st, calc) ==
    LET fee_payer    == accounts[3]
        fee_receiver == accounts[4]
        xfer_ok == st.env.transfer
                   /\ TransferOk(st.lam, fee_payer.key, fee_receiver.key, calc.fee)
        xfer    == TransferCpi(fee_payer.key, fee_receiver.key, calc.fee,
                               xfer_ok)
        lam1    == Transfer(st.lam, fee_payer.key, fee_receiver.key, calc.fee)
        data    == ForwardBase(selector, instruction_data)
        venue   == VenueCpi(program_id, RewriteAmount(data, calc.remaining),
                            ForwardAccounts(accounts), st.env.venue)
    IN  IF ~xfer_ok
        THEN Outcome("TransferFailed", st.cfg, st.lam, <<xfer>>, calc)
        ELSE IF Len(data) < 2 * U64Bytes
        THEN Outcome("Panic", st.cfg, lam1, <<xfer>>, calc)
        ELSE IF ~st.env.venue
        THEN Outcome("VenueFailed", st.cfg, lam1, <<xfer, venue>>, calc)
        ELSE Outcome("Ok", st.cfg, lam1, <<xfer, venue>>, calc)

\* ComputeFeeAndForward without the check of the payer's balance
ComputeFeeAndForward_BalanceUnchecked(program_id, accounts, instruction_data, selector, st, fee_rate) ==
    LET amount    == SubSeq(instruction_data, 1, U64Bytes)
        product   == FeeProduct(amount, fee_rate)
        fee       == WrappedFee(amount, fee_rate)
        remaining == CheckedSub(amount, fee)
        calc      == FeeCalc(TRUE, amount, product, fee, remaining.v)
    IN  IF st.oc /\ MulOverflows(amount, fee_rate)
        THEN Outcome("Panic", st.cfg, st.lam, <<>>,
                     FeeCalc(FALSE, amount, product, U64Zero, U64Zero))
        ELSE IF ~remaining.some
        THEN Outcome("InsufficientFunds", st.cfg, st.lam, <<>>, calc)
        ELSE FeeTransferAndForward(program_id, accounts, instruction_data,
                                   selector, st, calc)

\* process_with_fee, from the parsed amount to the balance check
ComputeFeeAndForward(program_id, accounts, instruction_data, selector, st, fee_rate) ==
    LET amount    == SubSeq(instruction_data, 1, U64Bytes)
        product   == FeeProduct(amount, fee_rate)
        fee       == WrappedFee(amount, fee_rate)
        remaining == CheckedSub(amount, fee)
        calc      == FeeCalc(TRUE, amount, product, fee, remaining.v)
    IN  IF st.oc /\ MulOverflows(amount, fee_rate)
        THEN Outcome("Panic", st.cfg, st.lam, <<>>,
                     FeeCalc(FALSE, amount, product, U64Zero, U64Zero))
        ELSE IF ~remaining.some
        THEN Outcome("InsufficientFunds", st.cfg, st.lam, <<>>, calc)
        ELSE IF U64Less(Lamports(st.lam, accounts[3].key), fee)
        THEN Outcome("InsufficientFunds", st.cfg, st.lam, <<>>, calc)
        ELSE FeeTransferAndForward(program_id, accounts, instruction_data,
                                   selector, st, calc)

\* ProcessWithFee with the payload length checked before the signature
ProcessWithFee_LengthBeforeSigner(program_id, accounts, instruction_data, selector, st) ==
    IF Len(accounts) < 4
    THEN Outcome("NotEnoughAccountKeys", st.cfg, st.lam, <<>>, NoCalc)
    ELSE
    LET fee_account  == accounts[1]
        fee_payer    == accounts[3]
        fee_receiver == accounts[4]
        trade_fee_config == TryFromSlice(AccountData(fee_account.key, st.cfg))
    IN  IF Len(instruction_data) < U64Bytes
        THEN Outcome("InvalidInstructionData", st.cfg, st.lam, <<>>, NoCalc)
        ELSE IF ~fee_payer.is_signer
        THEN Outcome("MissingRequiredSignature", st.cfg, st.lam, <<>>, NoCalc)
        ELSE IF ~trade_fee_config.ok
        THEN Outcome("BorshIoError", st.cfg, st.lam, <<>>, NoCalc)
        ELSE IF fee_receiver.key # trade_fee_config.v.fee_wallet
        THEN Outcome("InvalidAccountData", st.cfg, st.lam, <<>>, NoCalc)
        ELSE ComputeFeeAndForward(program_id, accounts, instruction_data,
                                  selector, st, trade_fee_config.v.fee_rate)

\* ProcessWithFee without the check of the receiver against the config
ProcessWithFee_ReceiverUnchecked(program_id, accounts, instruction_data, selector, st) ==
    IF Len(accounts) < 4
    THEN Outcome("NotEnoughAccountKeys", st.cfg, st.lam, <<>>, NoCalc)
    ELSE
    LET fee_account  == accounts[1]
        fee_payer    == accounts[3]
        trade_fee_config == TryFromSlice(AccountData(fee_account.key, st.cfg))
    IN  IF ~fee_payer.is_signer
        THEN Outcome("MissingRequiredSignature", st.cfg, st.lam, <<>>, NoCalc)
        ELSE IF ~trade_fee_config.ok
        THEN Outcome("BorshIoError", st.cfg, st.lam, <<>>, NoCalc)
        ELSE IF Len(instruction_data) < U64Bytes
        THEN Outcome("InvalidInstructionData", st.cfg, st.lam, <<>>, NoCalc)
        ELSE ComputeFeeAndForward(program_id, accounts, instruction_data,
                                  selector, st, trade_fee_config.v.fee_rate)

\* process_with_fee
ProcessWithFee(program_id, accounts, instruction_data, selector, st) ==
    IF Len(accounts) < 4
    THEN Outcome("NotEnoughAccountKeys", st.cfg, st.lam, <<>>, NoCalc)
    ELSE
    LET fee_account  == accounts[1]
        fee_payer    == accounts[3]
        fee_receiver == accounts[4]
        trade_fee_config == TryFromSlice(AccountData(fee_account.key, st.cfg))
    IN  IF ~fee_payer.is_signer
        THEN Outcome("MissingRequiredSignature", st.cfg, st.lam, <<>>, NoCalc)
        ELSE IF ~trade_fee_config.ok
        THEN Outcome("BorshIoError", st.cfg, st.lam, <<>>, NoCalc)
        ELSE IF fee_receiver.key # trade_fee_config.v.fee_wallet
        THEN Outcome("InvalidAccountData", st.cfg, st.lam, <<>>, NoCalc)
        ELSE IF Len(instruction_data) < U64Bytes
        THEN Outcome("InvalidInstructionData", st.cfg, st.lam, <<>>, NoCalc)
        ELSE ComputeFeeAndForward(program_id, accounts, instruction_data,
                                  selector, st, trade_fee_config.v.fee_rate)

process_pump_buy(accounts, instruction_data, st) ==
    ProcessWithFee("PUMP_PROGRAM", accounts, instruction_data,
                   PUMPFUN_BUY_SELECTOR, st)

process_pump_amm_buy(accounts, instruction_data, st) ==
    ProcessWithFee("PUMP_AMM_PROGRAM_ID", accounts, instruction_data,
                   PUMPAMM_BUY_SELECTOR, st)

process_pump_sell(accounts, instruction_data, st) ==
    ProcessWithFee("PUMP_PROGRAM", accounts, instruction_data,
                   PUMPFUN_SELL_SELECTOR, st)

process_pump_amm_sell(accounts, instruction_data, st) ==
    ProcessWithFee("PUMP_AMM_PROGRAM_ID", accounts, instruction_data,
                   PUMPAMM_SELL_SELECTOR, st)

----------------------------------------------------------------------------
(* The handlers of instructions/ata.rs, slot.rs and raydium.rs, after the  *)
(* design's contract for them: the venue B trades run the fee-proxy path,  *)
(* the other two are opaque collaborators.                                 *)

ATA_SELECTOR          == <<97, 116, 97, 0, 0, 0, 0, 0>>
EXPIRED_SLOT_SELECTOR == <<115, 108, 111, 116, 0, 0, 0, 0>>
RAYDIUM_BUY_SELECTOR  == <<114, 97, 121, 98, 117, 121, 0, 0>>
RAYDIUM_SELL_SELECTOR == <<114, 97, 121, 115, 101, 108, 108, 0>>

\* venue B's own discriminators for a buy and a sell
RAYDIUM_SWAP_IN_SELECTOR  == <<9, 0, 0, 0, 0, 0, 0, 0>>
RAYDIUM_SWAP_OUT_SELECTOR == <<11, 0, 0, 0, 0, 0, 0, 0>>

\* an opaque collaborator: succeeds or fails, touches no modelled account
Collaborator(st) ==
    Outcome(IF st.env.venue THEN "Ok" ELSE "CollaboratorFailed", st.cfg, st.lam, <<>>,
            NoCalc)

process_create_associated_token_account(accounts, rest, st) ==
    Collaborator(st)

process_expired_slot(rest, st) == Collaborator(st)

process_raydium_buy(accounts, instruction_data, st) ==
    ProcessWithFee("RAYDIUM_PROGRAM", accounts, instruction_data,
                   RAYDIUM_SWAP_IN_SELECTOR, st)

process_raydium_sell(accounts, instruction_data, st) ==
    ProcessWithFee("RAYDIUM_PROGRAM", accounts, instruction_data,
                   RAYDIUM_SWAP_OUT_SELECTOR, st)

----------------------------------------------------------------------------
(* The Admin Config Manager and the dispatcher: processor.rs.              *)

\* b"set_fee\0"
SET_PROTOCOL_FEE_WALLET_SELECTOR == <<115, 101, 116, 95, 102, 101, 101, 0>>

\* initialize_config_account refusing a config account that already holds a
\* record
initialize_config_account_GuardsInitialized(accounts, protocol_fee_rate, cfg, lam) ==
    IF Len(accounts) < 2
    THEN Outcome("Panic", cfg, lam, <<>>, NoCalc)
    ELSE
    LET config_account == accounts[1]
        admin          == accounts[2]
        stored == TryFromSlice(AccountData(config_account.key, cfg))
        config == TradeFeeState(protocol_fee_rate, admin.key)
        written == Serialize(config, AccountData(config_account.key, cfg))
        cfg1 == IF config_account.key = ConfigKey THEN written.data ELSE cfg
    IN  IF ~admin.is_signer
        THEN Outcome("MissingRequiredSignature", cfg, lam, <<>>, NoCalc)
        ELSE IF stored.ok /\ stored.v.fee_wallet # SystemKey
        THEN Outcome("AccountAlreadyInitialized", cfg, lam, <<>>, NoCalc)
        ELSE IF ~written.ok
        THEN Outcome("BorshIoError", cfg1, lam, <<>>, NoCalc)
        ELSE Outcome("Ok", cfg1, lam, <<>>, NoCalc)

\* initialize_config_account
initialize_config_account(accounts, protocol_fee_rate, cfg, lam) ==
    IF Len(accounts) < 2
    THEN Outcome("Panic", cfg, lam, <<>>, NoCalc)
    ELSE
    LET config_account == accounts[1]
        admin          == accounts[2]
        config == TradeFeeState(protocol_fee_rate, admin.key)
        written == Serialize(config, AccountData(config_account.key, cfg))
        cfg1 == IF config_account.key = ConfigKey THEN written.data ELSE cfg
    IN  IF ~admin.is_signer
        THEN Outcome("MissingRequiredSignature", cfg, lam, <<>>, NoCalc)
        ELSE IF ~written.ok
        THEN Outcome("BorshIoError", cfg1, lam, <<>>, NoCalc)
        ELSE Outcome("Ok", cfg1, lam, <<>>, NoCalc)

\* set_protocol_fee_wallet with the config read before the signature is
\* checked
set_protocol_fee_wallet_SignerAfterConfig(accounts, instruction_data, cfg, lam) ==
    IF Len(instruction_data) < KeyLen
    THEN Outcome("InvalidInstructionData", cfg, lam, <<>>, NoCalc)
    ELSE IF Len(accounts) < 2
    THEN Outcome("Panic", cfg, lam, <<>>, NoCalc)
    ELSE
    LET new_wallet     == SubSeq(instruction_data, 1, KeyLen)
        config_account == accounts[1]
        admin_account  == accounts[2]
        config  == TryFromSlice(AccountData(config_account.key, cfg))
        updated == TradeFeeState(config.v.fee_rate, new_wallet)
        written == Serialize(updated, AccountData(config_account.key, cfg))
        cfg1 == IF config_account.key = ConfigKey THEN written.data ELSE cfg
    IN  IF ~config.ok
        THEN Outcome("BorshIoError", cfg, lam, <<>>, NoCalc)
        ELSE IF ~admin_account.is_signer
        THEN Outcome("MissingRequiredSignature", cfg, lam, <<>>, NoCalc)
        ELSE IF admin_account.key # config.v.fee_wallet
        THEN Outcome("IllegalOwner", cfg, lam, <<>>, NoCalc)
        ELSE IF ~written.ok
        THEN Outcome("BorshIoError", cfg1, lam, <<>>, NoCalc)
        ELSE Outcome("Ok", cfg1, lam, <<>>, NoCalc)

\* set_protocol_fee_wallet writing a fresh record: the new wallet with a fee
\* rate of zero
set_protocol_fee_wallet_RateReset(accounts, instruction_data, cfg, lam) ==
    IF Len(instruction_data) < KeyLen
    THEN Outcome("InvalidInstructionData", cfg, lam, <<>>, NoCalc)
    ELSE IF Len(accounts) < 2
    THEN Outcome("Panic", cfg, lam, <<>>, NoCalc)
    ELSE
    LET new_wallet     == SubSeq(instruction_data, 1, KeyLen)
        config_account == accounts[1]
        admin_account  == accounts[2]
        config  == TryFromSlice(AccountData(config_account.key, cfg))
        updated == TradeFeeState(0, new_wallet)
        written == Serialize(updated, AccountData(config_account.key, cfg))
        cfg1 == IF config_account.key = ConfigKey THEN written.data ELSE cfg
    IN  IF ~admin_account.is_signer
        THEN Outcome("MissingRequiredSignature", cfg, lam, <<>>, NoCalc)
        ELSE IF ~config.ok
        THEN Outcome("BorshIoError", cfg, lam, <<>>, NoCalc)
        ELSE IF admin_account.key # config.v.fee_wallet
        THEN Outcome("IllegalOwner", cfg, lam, <<>>, NoCalc)
        ELSE IF ~written.ok
        THEN Outcome("BorshIoError", cfg1, lam, <<>>, NoCalc)
        ELSE Outcome("Ok", cfg1, lam, <<>>, NoCalc)

\* set_protocol_fee_wallet without the check of the caller against the
\* stored wallet
set_protocol_fee_wallet_OwnerUnchecked(accounts, instruction_data, cfg, lam) ==
    IF Len(instruction_data) < KeyLen
    THEN Outcome("InvalidInstructionData", cfg, lam, <<>>, NoCalc)
    ELSE IF Len(accounts) < 2
    THEN Outcome("Panic", cfg, lam, <<>>, NoCalc)
    ELSE
    LET new_wallet     == SubSeq(instruction_data, 1, KeyLen)
        config_account == accounts[1]
        admin_account  == accounts[2]
        config  == TryFromSlice(AccountData(config_account.key, cfg))
        updated == TradeFeeState(config.v.fee_rate, new_wallet)
        written == Serialize(updated, AccountData(config_account.key, cfg))
        cfg1 == IF config_account.key = ConfigKey THEN written.data ELSE cfg
    IN  IF ~admin_account.is_signer
        THEN Outcome("MissingRequiredSignature", cfg, lam, <<>>, NoCalc)
        ELSE IF ~config.ok
        THEN Outcome("BorshIoError", cfg, lam, <<>>, NoCalc)
        ELSE IF ~written.ok
        THEN Outcome("BorshIoError", cfg1, lam, <<>>, NoCalc)
        ELSE Outcome("Ok", cfg1, lam, <<>>, NoCalc)

\* set_protocol_fee_wallet
set_protocol_fee_wallet(accounts, instruction_data, cfg, lam) ==
    IF Len(instruction_data) < KeyLen
    THEN Outcome("InvalidInstructionData", cfg, lam, <<>>, NoCalc)
    ELSE IF Len(accounts) < 2
    THEN Outcome("Panic", cfg, lam, <<>>, NoCalc)
    ELSE
    LET new_wallet     == SubSeq(instruction_data, 1, KeyLen)
        config_account == accounts[1]
        admin_account  == accounts[2]
        config  == TryFromSlice(AccountData(config_account.key, cfg))
        updated == TradeFeeState(config.v.fee_rate, new_wallet)
        written == Serialize(updated, AccountData(config_account.key, cfg))
        cfg1 == IF config_account.key = ConfigKey THEN written.data ELSE cfg
    IN  IF ~admin_account.is_signer
        THEN Outcome("MissingRequiredSignature", cfg, lam, <<>>, NoCalc)
        ELSE IF ~config.ok
        THEN Outcome("BorshIoError", cfg, lam, <<>>, NoCalc)
        ELSE IF admin_account.key # config.v.fee_wallet
        THEN Outcome("IllegalOwner", cfg, lam, <<>>, NoCalc)
        ELSE IF ~written.ok
        THEN Outcome("BorshIoError", cfg1, lam, <<>>, NoCalc)
        ELSE Outcome("Ok", cfg1, lam, <<>>, NoCalc)

\* the dispatch table, in table order
SELECTORS == <<
    [selector |-> PUMP_SELECTOR,          handler |-> "process_pump_buy"],
    [selector |-> PUMP_AMM_SELECTOR,      handler |-> "process_pump_amm_buy"],
    [selector |-> PUMP_SELL_SELECTOR,     handler |-> "process_pump_sell"],
    [selector |-> PUMP_AMM_SELL_SELECTOR, handler |-> "process_pump_amm_sell"],
    [selector |-> ATA_SELECTOR,
     handler  |-> "process_create_associated_token_account"],
    [selector |-> EXPIRED_SLOT_SELECTOR,  handler |-> "process_expired_slot"],
    [selector |-> RAYDIUM_BUY_SELECTOR,   handler |-> "process_raydium_buy"],
    [selector |-> RAYDIUM_SELL_SELECTOR,  handler |-> "process_raydium_sell"],
    [selector |-> SET_PROTOCOL_FEE_WALLET_SELECTOR,
     handler  |-> "set_protocol_fee_wallet"] >>

\* the closure of the table entry whose handler is named h
Closure(h, accounts, rest, st) ==
    CASE h = "process_pump_buy" ->
             process_pump_buy(accounts, rest, st)
      [] h = "process_pump_amm_buy" ->
             process_pump_amm_buy(accounts, rest, st)
      [] h = "process_pump_sell" ->
             process_pump_sell(accounts, rest, st)
      [] h = "process_pump_amm_sell" ->
             process_pump_amm_sell(accounts, rest, st)
      [] h = "process_create_associated_token_account" ->
             process_create_associated_token_account(accounts, rest, st)
      [] h = "process_expired_slot" -> process_expired_slot(rest, st)
      [] h = "process_raydium_buy" ->
             process_raydium_buy(accounts, rest, st)
      [] h = "process_raydium_sell" ->
             process_raydium_sell(accounts, rest, st)
      [] h = "set_protocol_fee_wallet" ->
             set_protocol_fee_wallet(accounts, rest, st.cfg, st.lam)

\* return handler(accounts, rest): the handler runs and its result is the
\* call's result
Handle(h, accounts, rest, st) ==
    [Closure(h, accounts, rest, st) EXCEPT !.handler = h]

\* the table indices whose selector equals method
Matches(method) == {i \in 1..Len(SELECTORS) : SELECTORS[i].selector = method}

\* the first table index whose selector equals method
FirstMatch(method) ==
    CHOOSE i \in Matches(method) : \A j \in Matches(method) : i <= j

\* the handler process_instruction runs for instruction_data: "abort" when
\* split_at(8) is out of range, "none" when no selector matches
Dispatched(instruction_data) ==
    IF Len(instruction_data) < 8 THEN "abort"
    ELSE LET method == SubSeq(instruction_data, 1, 8)
         IN  IF Matches(method) = {} THEN "none"
             ELSE SELECTORS[FirstMatch(method)].handler

\* process_instruction answering Ok when no selector matches
process_instruction_UnmatchedOk(accounts, instruction_data, st) ==
    LET h    == Dispatched(instruction_data)
        rest == SubSeq(instruction_data, 9, Len(instruction_data))
    IN  IF h = "abort" THEN Outcome("Panic", st.cfg, st.lam, <<>>, NoCalc)
        ELSE IF h = "none" THEN Outcome("Ok", st.cfg, st.lam, <<>>, NoCalc)
        ELSE Handle(h, accounts, rest, st)

\* process_instruction
process_instruction(accounts, instruction_data, st) ==
    LET h    == Dispatched(instruction_data)
        rest == SubSeq(instruction_data, 9, Len(instruction_data))
    IN  IF h = "abort" THEN Outcome("Panic", st.cfg, st.lam, <<>>, NoCalc)
        ELSE IF h = "none"
        THEN Outcome("InvalidInstructionData", st.cfg, st.lam, <<>>, NoCalc)
        ELSE Handle(h, accounts, rest, st)

----------------------------------------------------------------------------
(* The inputs of the calls.                                                *)

\* floor((2^64 - 1) / 100): the largest amount whose product with a fee rate
\* of 100 stays in the u64 range
MaxExactAmount == DivLE(Rep(255, U64Bytes), 100)

\* 1_000_000, 2^63, 2^64 - 1, and the largest amount that a fee rate of 100
\* does not overflow
Amounts == { ToLE(1000000, U64Bytes),
             Rep(0, U64Bytes - 1) \o <<128>>,
             Rep(255, U64Bytes),
             MaxExactAmount }

\* lengths of the venue arguments that follow the amount
TrailLens == {0, 4, 16}

\* n venue argument bytes, each one different from its neighbours
Trailing(n) == [i \in 1..n |-> 16 + i]

\* fee rates handed to initialize_config_account
Rates == {5, 100, 200}

\* sizes of the config account's data
CfgLens == {ConfigLen - 1, ConfigLen, ConfigLen + 1}

\* every amount with the longest arguments, one amount with every length
TradePayloads ==
    {a \o Trailing(16) : a \in Amounts}
        \cup {ToLE(1000000, U64Bytes) \o Trailing(n) : n \in TrailLens}
RotatePayloads == Wallets
ShortPayload == <<1, 2, 3, 4>>

\* an opcode that is in no table entry
UnknownOpcode == <<255, 255, 255, 255, 255, 255, 255, 255>>

\* the first n accounts of a trade call: the four-account prefix and three
\* venue accounts, of which one is the payer again and one occurs twice
TradeList(payer, signs, receiver, n) ==
    SubSeq(<< Acct(ConfigKey, FALSE, FALSE), Acct(SystemKey, FALSE, FALSE),
              Acct(payer, signs, TRUE), Acct(receiver, FALSE, TRUE),
              Acct(VenueKey, FALSE, TRUE), Acct(payer, signs, FALSE),
              Acct(VenueKey, FALSE, TRUE) >>,
           1, n)

\* the first n accounts of an admin call
AdminList(admin, signs, n) ==
    SubSeq(<< Acct(ConfigKey, FALSE, TRUE), Acct(admin, signs, FALSE) >>, 1, n)

TradeLists == {TradeList(p, s, r, n) :
                  p \in Wallets, s \in BOOLEAN, r \in Wallets, n \in {3, 4, 7}}
AdminLists == {AdminList(a, s, n) :
                  a \in Wallets, s \in BOOLEAN, n \in {1, 2}}
\* the payload and the account lists the less exercised opcodes are called
\* with
SamplePayload == ToLE(1000000, U64Bytes) \o Trailing(16)
SampleTradeLists == {TradeList(p, TRUE, r, 7) : p \in Wallets, r \in Wallets}
SampleLists == SampleTradeLists \cup {AdminList(a, TRUE, 2) : a \in Wallets}

\* the dispatch opcodes of the trade handlers
TradeSelectors ==
    {PUMP_SELECTOR, PUMP_AMM_SELECTOR, PUMP_SELL_SELECTOR,
     PUMP_AMM_SELL_SELECTOR, RAYDIUM_BUY_SELECTOR, RAYDIUM_SELL_SELECTOR}

Call(accounts, data) == [accounts |-> accounts, data |-> data]

\* the calls made through the entry point: every trade input under the first
\* trade opcode, every admin input under the rotation opcode, the sample
\* inputs under every opcode of the table and under an unknown one, and
\* instruction data too short to hold an opcode
Calls ==
    {Call(l, PUMP_SELECTOR \o p) :
        l \in TradeLists, p \in TradePayloads \cup {ShortPayload}}
    \cup {Call(l, SET_PROTOCOL_FEE_WALLET_SELECTOR \o p) :
        l \in AdminLists, p \in RotatePayloads \cup {ShortPayload}}
    \cup {Call(l, SELECTORS[i].selector \o p) :
        i \in 1..Len(SELECTORS), l \in SampleLists,
        p \in {SamplePayload, Key(1)}}
    \cup {Call(l, UnknownOpcode \o p) :
        l \in SampleLists, p \in {SamplePayload, Key(1)}}
    \cup {Call(l, <<1, 2, 3>>) : l \in SampleLists}

\* whether the system program and the venue carry out what they are asked
Envs == { [transfer |-> TRUE,  venue |-> TRUE],
          [transfer |-> TRUE,  venue |-> FALSE],
          [transfer |-> FALSE, venue |-> TRUE] }

\* the balance wallet i starts with
InitLamports(i) ==
    CASE i = 1 -> ToLE(40000, U64Bytes)
      [] i = 2 -> ToLE(60000, U64Bytes)
      [] OTHER -> U64Zero

----------------------------------------------------------------------------
(* The state machine.                                                      *)

VARIABLES
    cfgData,         \* the bytes of the config account's data
    lamports,        \* the balance of each wallet
    overflowChecks,  \* whether the build panics on integer overflow
    last,            \* the call that has run and not yet returned
    rotated          \* the wallets of the latest rotation that still stands

vars == <<cfgData, lamports, overflowChecks, last, rotated>>

CallRecord(op, accounts, data, rate, out) ==
    [op |-> op, accounts |-> accounts, data |-> data, rate |-> rate,
     pre_cfg |-> cfgData, pre_lam |-> lamports, pre_rot |-> rotated,
     out |-> out]

\* no rotation has succeeded since the record was last written otherwise
NoRotation == [some |-> FALSE, from |-> SystemKey, to |-> SystemKey]

NoCall ==
    [op |-> "none", accounts |-> <<>>, data |-> <<>>, rate |-> 0,
     pre_cfg |-> <<>>, pre_lam |-> [i \in WalletIds |-> U64Zero],
     pre_rot |-> NoRotation,
     out |-> Outcome("None", <<>>, [i \in WalletIds |-> U64Zero], <<>>,
                     NoCalc)]

Init ==
    /\ cfgData \in {Rep(0, n) : n \in CfgLens}
    /\ lamports = [i \in WalletIds |-> InitLamports(i)]
    /\ overflowChecks \in BOOLEAN
    /\ last = NoCall
    /\ rotated = NoRotation

\* the runtime keeps what a call wrote only when the call returns Ok
Commit(out) ==
    /\ cfgData' = IF out.result = "Ok" THEN out.cfg ELSE cfgData
    /\ lamports' = IF out.result = "Ok" THEN out.lam ELSE lamports
    /\ UNCHANGED overflowChecks

\* the rotation that stands after a call: a successful set_protocol_fee_wallet
\* replaces it, any other write of the record ends it
Rotation(out) ==
    IF out.result = "Ok" /\ out.handler = "set_protocol_fee_wallet"
    THEN [some |-> TRUE,
          from |-> TryFromSlice(cfgData).v.fee_wallet,
          to   |-> TryFromSlice(out.cfg).v.fee_wallet]
    ELSE IF out.result = "Ok" /\ out.cfg # cfgData THEN NoRotation
    ELSE rotated

\* a call through the program's entry point
Entrypoint ==
    /\ last.op = "none"
    /\ \E call \in Calls, env \in Envs :
          LET st  == HandlerState(cfgData, lamports, overflowChecks, env)
              out == process_instruction(call.accounts, call.data, st)
          IN  /\ last' = CallRecord("entrypoint", call.accounts, call.data,
                                    0, out)
              /\ Commit(out)
              /\ rotated' = Rotation(out)

\* a call of initialize_config_account
InitializeConfig ==
    /\ last.op = "none"
    /\ \E accounts \in AdminLists, rate \in Rates :
          LET out == initialize_config_account(accounts, rate, cfgData,
                                               lamports)
          IN  /\ last' = CallRecord("initialize", accounts, <<>>, rate, out)
              /\ Commit(out)
              /\ rotated' = Rotation(out)

\* the call's result reaches the caller; nothing of the call outlives it
Return ==
    /\ last.op # "none"
    /\ last' = NoCall
    /\ UNCHANGED <<cfgData, lamports, overflowChecks, rotated>>

Next == Entrypoint \/ InitializeConfig \/ Return

Spec == Init /\ [][Next]_vars

----------------------------------------------------------------------------
(* What the properties below read off the call that has just run.          *)

\* the opcode and the opcode-stripped payload of the call
Method == SubSeq(last.data, 1, 8)
Rest == SubSeq(last.data, 9, Len(last.data))

IsTradeCall ==
    last.op = "entrypoint" /\ Len(last.data) >= 8 /\ Method \in TradeSelectors

IsRotateCall ==
    /\ last.op = "entrypoint" /\ Len(last.data) >= 8
    /\ Method = SET_PROTOCOL_FEE_WALLET_SELECTOR

\* the record the config account held when the call started
StoredConfig == TryFromSlice(last.pre_cfg)

\* the result the caller sees and the invocations the call issued
Result == last.out.result
Cpis == last.out.cpis
NothingIssued == Cpis = <<>>
StateUnchanged == cfgData = last.pre_cfg /\ lamports = last.pre_lam

\* the trade call passes preconditions 1 to 4
Pre1to4 ==
    /\ IsTradeCall
    /\ Len(last.accounts) >= 4
    /\ last.accounts[3].is_signer
    /\ StoredConfig.ok
    /\ last.accounts[4].key = StoredConfig.v.fee_wallet
    /\ Len(Rest) >= U64Bytes

Amount == SubSeq(Rest, 1, U64Bytes)
Rate == StoredConfig.v.fee_rate
PayerBalance == Lamports(last.pre_lam, last.accounts[3].key)

\* floor(amount * fee_rate / 100) over the integers, U64Bytes + 1 bytes wide
ExactFee == DivLE(FeeProduct(Amount, Rate), 100)

----------------------------------------------------------------------------
\* C1: for every trade call with a stored fee_rate of at most 100 that gets
\* as far as the fee computation, the 64-bit product amount * fee_rate does
\* not leave the u64 range, the fee is floor(amount * fee_rate / 100) over
\* the integers, and fee + remaining = amount.
C1_FeeIsExactQuotient ==
    (Pre1to4 /\ Rate <= 100) =>
        /\ last.out.calc.product[U64Bytes + 1] = 0
        /\ last.out.calc.done
        /\ last.out.calc.fee \o <<0>> = ExactFee
        /\ AddCarry(last.out.calc.fee, last.out.calc.remaining, 0)
               = Amount \o <<0>>

----------------------------------------------------------------------------
\* a rotation attempt that is well formed apart from who signs it
WellFormedRotation ==
    /\ IsRotateCall
    /\ Len(Rest) >= KeyLen
    /\ Len(last.accounts) >= 2
    /\ last.accounts[1].key = ConfigKey
    /\ last.accounts[2].is_signer

\* C2: a rotate-fee-wallet call succeeds only if its signer is the fee_wallet
\* stored when the call starts; and while a rotation from W to W' (W' # W)
\* stands, the next rotation attempt signed by W fails with IllegalOwner
\* (AuthorizationDenied) and one signed by W' succeeds.
C2_RotationAuthorityFollowsWallet ==
    /\ (IsRotateCall /\ Result = "Ok") =>
           /\ Len(last.accounts) >= 2
           /\ last.accounts[2].is_signer
           /\ StoredConfig.ok
           /\ last.accounts[2].key = StoredConfig.v.fee_wallet
    /\ (WellFormedRotation /\ last.pre_rot.some
            /\ last.pre_rot.from # last.pre_rot.to) =>
           /\ last.accounts[2].key = last.pre_rot.from
                  => Result = "IllegalOwner"
           /\ last.accounts[2].key = last.pre_rot.to => Result = "Ok"

\* C2 witness: after a rotation away from W, W signs a rotation and is denied
C2_OldWalletDenied ==
    /\ WellFormedRotation
    /\ last.pre_rot.some
    /\ last.pre_rot.from # last.pre_rot.to
    /\ last.accounts[2].key = last.pre_rot.from
    /\ Result = "IllegalOwner"

----------------------------------------------------------------------------
VenueFailed == \E i \in DOMAIN Cpis : Cpis[i].kind = "venue" /\ ~Cpis[i].ok
VenueSucceeded == \E i \in DOMAIN Cpis : Cpis[i].kind = "venue" /\ Cpis[i].ok

\* C3: a trade call whose forwarded venue invocation fails does not return
\* Ok and leaves every balance (and the config record) as before the call;
\* balances differ after a trade call only if the venue invocation succeeded.
C3_TradeIsAtomic ==
    /\ (IsTradeCall /\ VenueFailed) => (Result # "Ok" /\ StateUnchanged)
    /\ (IsTradeCall /\ lamports # last.pre_lam) => VenueSucceeded

\* C3 witness: the fee was moved, the venue then failed, the balances are the
\* ones before the call
C3_FeeMovedThenVenueFailed ==
    /\ IsTradeCall
    /\ VenueFailed
    /\ Cpis[1].kind = "transfer" /\ Cpis[1].ok
    /\ last.out.lam # last.pre_lam
    /\ lamports = last.pre_lam

----------------------------------------------------------------------------
\* the call names a fee_receiver other than the stored fee_wallet
ReceiverMismatch ==
    /\ IsTradeCall
    /\ Len(last.accounts) >= 4
    /\ StoredConfig.ok
    /\ last.accounts[4].key # StoredConfig.v.fee_wallet

\* C4 as stated: every trade call whose fee_receiver differs from the stored
\* fee_wallet fails with InvalidAccountData (RecipientMismatch) and issues
\* neither the fee transfer nor the venue invocation.
C4_AnyMismatchIsRecipientMismatch ==
    ReceiverMismatch => (Result = "InvalidAccountData" /\ NothingIssued)

\* C4 amended: every trade call whose fee_payer signed and whose fee_receiver
\* differs from the stored fee_wallet fails with InvalidAccountData and
\* issues nothing; a call with a mismatching receiver issues nothing whoever
\* signed.
C4_SignedMismatchIsRecipientMismatch ==
    /\ (ReceiverMismatch /\ last.accounts[3].is_signer) =>
           (Result = "InvalidAccountData" /\ NothingIssued)
    /\ ReceiverMismatch => (NothingIssued /\ Result # "Ok")

\* C4 witness: a signed trade call with the wrong receiver was rejected
C4_MismatchRejected ==
    /\ ReceiverMismatch
    /\ last.accounts[3].is_signer
    /\ Result = "InvalidAccountData"

----------------------------------------------------------------------------
\* the fee of the call as the program computes it, when it computes one
FeeComputed == Pre1to4 /\ ~(overflowChecks /\ MulOverflows(Amount, Rate))

\* C5: a trade call that passes preconditions 1 to 4 and whose fee_payer
\* holds less than the fee the program computed fails with InsufficientFunds,
\* issues neither invocation and leaves the balances unchanged.
C5_BalanceBelowFeeRejected ==
    (FeeComputed /\ U64Less(PayerBalance, WrappedFee(Amount, Rate))) =>
        (Result = "InsufficientFunds" /\ NothingIssued /\ StateUnchanged)

\* C5 witness: balance 40_000, fee 50_000
C5_ScenarioRejected ==
    /\ FeeComputed
    /\ PayerBalance = ToLE(40000, U64Bytes)
    /\ WrappedFee(Amount, Rate) = ToLE(50000, U64Bytes)
    /\ Result = "InsufficientFunds"

----------------------------------------------------------------------------
\* the venue's own discriminator that the handler of a trade opcode forwards
VenueSelector(method) ==
    CASE method = PUMP_SELECTOR          -> PUMPFUN_BUY_SELECTOR
      [] method = PUMP_AMM_SELECTOR      -> PUMPAMM_BUY_SELECTOR
      [] method = PUMP_SELL_SELECTOR     -> PUMPFUN_SELL_SELECTOR
      [] method = PUMP_AMM_SELL_SELECTOR -> PUMPAMM_SELL_SELECTOR
      [] method = RAYDIUM_BUY_SELECTOR   -> RAYDIUM_SWAP_IN_SELECTOR
      [] method = RAYDIUM_SELL_SELECTOR  -> RAYDIUM_SWAP_OUT_SELECTOR

\* the payload of the forwarded venue instruction
Forwarded == Cpis[2].data

\* C6: for every successful trade call the forwarded payload is as long as
\* the opcode-stripped inbound payload, starts with the venue selector,
\* holds in bytes [8:16) the little-endian remaining amount (which, added to
\* the fee transferred, gives the inbound amount), and carries every inbound
\* byte from offset 16 on unchanged at the same offset.
C6_ForwardedPayloadRewritesAmountOnly ==
    (IsTradeCall /\ Result = "Ok") =>
        /\ Len(Cpis) = 2
        /\ Cpis[1].kind = "transfer" /\ Cpis[2].kind = "venue"
        /\ Len(Forwarded) = Len(Rest)
        /\ SubSeq(Forwarded, 1, 8) = VenueSelector(Method)
        /\ AddCarry(SubSeq(Forwarded, 9, 16), Cpis[1].lamports, 0)
               = Amount \o <<0>>
        /\ \A i \in 17..Len(Forwarded) : Forwarded[i] = Rest[i]

\* C6 witness: amount 1_000_000 at 5%: fee 50_000, forwarded amount 950_000
C6_ScenarioForwarded ==
    /\ IsTradeCall /\ Result = "Ok"
    /\ Amount = ToLE(1000000, U64Bytes)
    /\ Cpis[1].lamports = ToLE(50000, U64Bytes)
    /\ SubSeq(Forwarded, 9, 16) = ToLE(950000, U64Bytes)
    /\ Len(Forwarded) = 24

----------------------------------------------------------------------------
\* the call is an admin call whose signer is not the stored fee_wallet of an
\* initialized record
UnauthorizedAdminCall ==
    /\ last.op = "initialize" \/ IsRotateCall
    /\ StoredConfig.ok
    /\ StoredConfig.v.fee_wallet \in Wallets
    /\ \/ Len(last.accounts) < 2
       \/ ~last.accounts[2].is_signer
       \/ last.accounts[2].key # StoredConfig.v.fee_wallet

\* C7: every trade call leaves the config record unchanged, and no admin
\* call by a signer other than the stored fee_wallet changes it.
C7_ConfigChangedOnlyByItsWallet ==
    /\ IsTradeCall => cfgData = last.pre_cfg
    /\ UnauthorizedAdminCall => cfgData = last.pre_cfg

----------------------------------------------------------------------------
\* C8: the fee_rate stored in the config account never exceeds 100.
C8_FeeRateAtMost100 == cfgData[1] <= 100

----------------------------------------------------------------------------
\* the ten operations of the dispatch contract, by handler
Operations ==
    {"process_pump_buy", "process_pump_amm_buy", "process_pump_sell",
     "process_pump_amm_sell", "process_raydium_buy", "process_raydium_sell",
     "process_create_associated_token_account", "process_expired_slot",
     "initialize_config_account", "set_protocol_fee_wallet"}

\* C9: each of the ten operations has an opcode in the dispatch table, no two
\* table entries share an opcode, and a call carrying an entry's opcode runs
\* that entry's handler and no other.
C9_DispatchTableClosedAndCollisionFree ==
    /\ \A op \in Operations :
           \E i \in 1..Len(SELECTORS) : SELECTORS[i].handler = op
    /\ \A i, j \in 1..Len(SELECTORS) :
           i # j => SELECTORS[i].selector # SELECTORS[j].selector
    /\ \A i \in 1..Len(SELECTORS) :
           (last.op = "entrypoint" /\ Len(last.data) >= 8
                /\ Method = SELECTORS[i].selector)
               => last.out.handler = SELECTORS[i].handler

----------------------------------------------------------------------------
\* the call carries an 8-byte opcode that is in no table entry
UnknownOperation ==
    /\ last.op = "entrypoint" /\ Len(last.data) >= 8
    /\ \A i \in 1..Len(SELECTORS) : SELECTORS[i].selector # Method

\* C10: a call whose opcode is in no table entry fails with
\* InvalidInstructionData (UnknownOperation), runs no handler, issues no
\* invocation and leaves the balances and the config record unchanged.
C10_UnknownOpcodeRejected ==
    UnknownOperation =>
        /\ Result = "InvalidInstructionData"
        /\ last.out.handler = "none"
        /\ NothingIssued
        /\ last.out.cfg = last.pre_cfg /\ last.out.lam = last.pre_lam
        /\ StateUnchanged

\* C10 witness: the unknown opcode was called and rejected
C10_UnknownOpcodeCalled ==
    /\ UnknownOperation
    /\ Method = UnknownOpcode
    /\ Len(Rest) > 0
    /\ Result = "InvalidInstructionData"

----------------------------------------------------------------------------
\* the trade call names the four accounts of the prefix
HasPrefix == IsTradeCall /\ Len(last.accounts) >= 4
PayerSigned == last.accounts[3].is_signer
ReceiverIsWallet == last.accounts[4].key = StoredConfig.v.fee_wallet

\* C11: a trade call that names its four prefix accounts fails with the error
\* of the earliest precondition it violates, in the order signer
\* (MissingRequiredSignature), config deserializes (BorshIoError), recipient
\* (InvalidAccountData), payload of at least 8 bytes (InvalidInstructionData),
\* balance of at least the computed fee (InsufficientFunds); and in each of
\* these cases no invocation is issued.
C11_EarliestViolatedPreconditionWins ==
    HasPrefix =>
        /\ ~PayerSigned
               => (Result = "MissingRequiredSignature" /\ NothingIssued)
        /\ (PayerSigned /\ ~StoredConfig.ok)
               => (Result = "BorshIoError" /\ NothingIssued)
        /\ (PayerSigned /\ StoredConfig.ok /\ ~ReceiverIsWallet)
               => (Result = "InvalidAccountData" /\ NothingIssued)
        /\ (PayerSigned /\ StoredConfig.ok /\ ReceiverIsWallet
                /\ Len(Rest) < U64Bytes)
               => (Result = "InvalidInstructionData" /\ NothingIssued)
        /\ (FeeComputed /\ U64Less(PayerBalance, last.out.calc.fee))
               => (Result = "InsufficientFunds" /\ NothingIssued)

\* C11 witness: the signer, recipient and payload preconditions are violated
\* together and the call fails with the signer's error
C11_ThreeViolatedSignerReported ==
    /\ HasPrefix
    /\ ~PayerSigned
    /\ StoredConfig.ok
    /\ ~ReceiverIsWallet
    /\ Len(Rest) < U64Bytes
    /\ Result = "MissingRequiredSignature"
    /\ NothingIssued

----------------------------------------------------------------------------
\* a rotation call that names the config account and the admin account
HasAdminAccounts ==
    /\ IsRotateCall
    /\ Len(last.accounts) >= 2
    /\ last.accounts[1].key = ConfigKey
AdminSigned == last.accounts[2].is_signer
AdminIsWallet == last.accounts[2].key = StoredConfig.v.fee_wallet

\* C12: a rotation call with its two accounts fails with
\* InvalidInstructionData when the payload is shorter than 32 bytes, else
\* with MissingRequiredSignature when the admin did not sign, else with
\* BorshIoError when the config does not deserialize, else with IllegalOwner
\* when the admin is not the stored fee_wallet; otherwise it succeeds and the
\* stored fee_wallet is the first 32 payload bytes.
C12_RotationChecksInOrder ==
    HasAdminAccounts =>
        /\ Len(Rest) < KeyLen => Result = "InvalidInstructionData"
        /\ (Len(Rest) >= KeyLen /\ ~AdminSigned)
               => Result = "MissingRequiredSignature"
        /\ (Len(Rest) >= KeyLen /\ AdminSigned /\ ~StoredConfig.ok)
               => Result = "BorshIoError"
        /\ (Len(Rest) >= KeyLen /\ AdminSigned /\ StoredConfig.ok
                /\ ~AdminIsWallet)
               => Result = "IllegalOwner"
        /\ (Len(Rest) >= KeyLen /\ AdminSigned /\ StoredConfig.ok
                /\ AdminIsWallet)
               => /\ Result = "Ok"
                  /\ TryFromSlice(cfgData).ok
                  /\ TryFromSlice(cfgData).v.fee_wallet
                         = SubSeq(Rest, 1, KeyLen)

\* C12 witness: an unsigned rotation over a config that does not deserialize
\* fails with the signer's error
C12_UnsignedOverMalformedConfig ==
    /\ HasAdminAccounts
    /\ Len(Rest) >= KeyLen
    /\ ~AdminSigned
    /\ ~StoredConfig.ok
    /\ Result = "MissingRequiredSignature"

----------------------------------------------------------------------------
\* a call of initialize_config_account that names both of its accounts
IsInitializeCall ==
    /\ last.op = "initialize"
    /\ Len(last.accounts) >= 2
    /\ last.accounts[1].key = ConfigKey

\* the config account's data starts with the record {rate, wallet}
HoldsRecord(data, rate, wallet) ==
    /\ Len(data) >= ConfigLen
    /\ data[1] = rate
    /\ SubSeq(data, 2, ConfigLen) = wallet

\* C13 as stated: initialize fails with MissingRequiredSignature when the
\* admin did not sign, and otherwise succeeds whatever the config account
\* held, after which the account holds the supplied fee_rate and the admin's
\* identity as fee_wallet.
C13_InitializeSucceedsWhateverHeld ==
    IsInitializeCall =>
        /\ ~AdminSigned => Result = "MissingRequiredSignature"
        /\ AdminSigned
               => /\ Result = "Ok"
                  /\ HoldsRecord(cfgData, last.rate, last.accounts[2].key)

\* C13: initialize fails with MissingRequiredSignature when the admin did not
\* sign; otherwise, when the config account's data is at least 33 bytes long,
\* it succeeds whatever those bytes were, after which the first 33 bytes are
\* the supplied fee_rate and the admin's identity and the bytes after them
\* are as before; and when the data is shorter it fails with BorshIoError.
C13_InitializeSucceedsWhenRecordFits ==
    IsInitializeCall =>
        /\ ~AdminSigned => Result = "MissingRequiredSignature"
        /\ (AdminSigned /\ Len(last.pre_cfg) >= ConfigLen)
               => /\ Result = "Ok"
                  /\ HoldsRecord(cfgData, last.rate, last.accounts[2].key)
                  /\ Len(cfgData) = Len(last.pre_cfg)
                  /\ SubSeq(cfgData, ConfigLen + 1, Len(cfgData))
                         = SubSeq(last.pre_cfg, ConfigLen + 1,
                                  Len(last.pre_cfg))
        /\ (AdminSigned /\ Len(last.pre_cfg) < ConfigLen)
               => (Result = "BorshIoError" /\ cfgData = last.pre_cfg)

\* C13 witness: initialize succeeded over a record that another wallet held
C13_InitializedOverAnothersRecord ==
    /\ IsInitializeCall
    /\ AdminSigned
    /\ StoredConfig.ok
    /\ StoredConfig.v.fee_wallet \in Wallets
    /\ StoredConfig.v.fee_wallet # last.accounts[2].key
    /\ StoredConfig.v.fee_rate # last.rate
    /\ Result = "Ok"
    /\ HoldsRecord(cfgData, last.rate, last.accounts[2].key)

----------------------------------------------------------------------------
\* C14: a trade call issues at most two invocations, the fee transfer first
\* and the venue invocation second, each at most once; the venue invocation
\* is issued only after the transfer succeeded; and the call returns Ok
\* exactly when both were issued and both succeeded.
C14_TransferThenVenueOnce ==
    IsTradeCall =>
        /\ Len(Cpis) <= 2
        /\ Len(Cpis) >= 1 => Cpis[1].kind = "transfer"
        /\ Len(Cpis) = 2 => (Cpis[2].kind = "venue" /\ Cpis[1].ok)
        /\ Result = "Ok" <=> (Len(Cpis) = 2 /\ Cpis[1].ok /\ Cpis[2].ok)

\* C14 witness: the transfer failed, no venue invocation followed and the
\* call failed
C14_TransferFailedVenueNotIssued ==
    /\ IsTradeCall
    /\ Len(Cpis) = 1
    /\ Cpis[1].kind = "transfer"
    /\ ~Cpis[1].ok
    /\ Result = "TransferFailed"

----------------------------------------------------------------------------
\* the fee and the remainder the call computed
Fee == last.out.calc.fee
SubtractionUnderflows == U64Less(Amount, Fee)

\* C15: in every trade call that computes a fee under a stored fee_rate of at
\* most 100 the fee is at most the amount, so the checked subtraction does
\* not underflow; the same holds of the call's amount under every rate from
\* 0 to 100; an underflow, where it happens, is under a rate above 100 and
\* fails the call with InsufficientFunds; and under a rate above 100 some
\* amount underflows.
C15_NoUnderflowUpToRate100 ==
    /\ FeeComputed =>
           /\ Rate <= 100 => ~SubtractionUnderflows
           /\ \A r \in 0..100 : CheckedSub(Amount, WrappedFee(Amount, r)).some
           /\ SubtractionUnderflows
                  => (Rate > 100 /\ Result = "InsufficientFunds")
    /\ \E a \in Amounts, r \in Rates :
           r > 100 /\ ~CheckedSub(a, WrappedFee(a, r)).some

\* C15 witness: under a rate of 100 the fee is the whole of the largest
\* amount the product does not overflow, and the remainder is zero
C15_FeeIsWholeAmount ==
    /\ FeeComputed
    /\ Rate = 100
    /\ Amount = MaxExactAmount
    /\ Fee = Amount
    /\ last.out.calc.remaining = U64Zero
    /\ ~SubtractionUnderflows

----------------------------------------------------------------------------
\* C16: a trade call that meets preconditions 1 to 3 fails with
\* InvalidInstructionData before any transfer when its payload is shorter
\* than 8 bytes; and every trade call whose payload is at least 8 bytes long,
\* that meets preconditions 1 to 3 and 5 and whose fee transfer succeeded,
\* goes on to issue the venue invocation and does not abort.
C16_EightBytePayloadReachesVenue ==
    HasPrefix =>
        /\ (PayerSigned /\ StoredConfig.ok /\ ReceiverIsWallet
                /\ Len(Rest) < U64Bytes)
               => (Result = "InvalidInstructionData" /\ NothingIssued)
        /\ (FeeComputed /\ ~SubtractionUnderflows
                /\ ~U64Less(PayerBalance, Fee)
                /\ Cpis # <<>> /\ Cpis[1].ok)
               => /\ Len(Cpis) = 2
                  /\ Cpis[2].kind = "venue"
                  /\ Result # "Panic"

----------------------------------------------------------------------------
\* C17: the fee transfer of a trade call is the call's first and only
\* transfer; it debits the fee_payer account, which signed the call, and
\* credits the fee_wallet stored in the config account when the call
\* started, by the computed fee; a call that returns Ok has moved exactly
\* that fee between exactly those two balances; and while a rotation from W
\* to W' (W' # W) stands, the transfer credits W' and not W.
C17_FeeGoesFromSignerToStoredWallet ==
    (IsTradeCall /\ Cpis # <<>>) =>
        LET xfer == Cpis[1]
        IN  /\ xfer.kind = "transfer"
            /\ \A i \in DOMAIN Cpis : Cpis[i].kind = "transfer" => i = 1
            /\ HasPrefix /\ PayerSigned
            /\ xfer.from = last.accounts[3].key
            /\ StoredConfig.ok
            /\ xfer.to = StoredConfig.v.fee_wallet
            /\ xfer.lamports = Fee
            /\ (last.pre_rot.some /\ last.pre_rot.from # last.pre_rot.to)
                   => (xfer.to = last.pre_rot.to
                          /\ xfer.to # last.pre_rot.from)
            /\ Result = "Ok" =>
                   /\ \A w \in Wallets \ {xfer.from, xfer.to} :
                          Lamports(lamports, w) = Lamports(last.pre_lam, w)
                   /\ xfer.from = xfer.to => lamports = last.pre_lam
                   /\ xfer.from # xfer.to =>
                          /\ AddCarry(Lamports(lamports, xfer.from), Fee, 0)
                                 = Lamports(last.pre_lam, xfer.from) \o <<0>>
                          /\ AddCarry(Lamports(last.pre_lam, xfer.to), Fee, 0)
                                 = Lamports(lamports, xfer.to) \o <<0>>

\* C17 witness: after a rotation from W to W' a trade paid a fee that is not
\* zero to W', out of another wallet's balance
C17_FeePaidToRotatedWallet ==
    /\ IsTradeCall
    /\ Result = "Ok"
    /\ last.pre_rot.some
    /\ last.pre_rot.from # last.pre_rot.to
    /\ Cpis[1].to = last.pre_rot.to
    /\ Cpis[1].from # Cpis[1].to
    /\ Fee # U64Zero
    /\ Lamports(lamports, Cpis[1].to) # Lamports(last.pre_lam, Cpis[1].to)

----------------------------------------------------------------------------
\* C18: no call ends in an abort: instruction data shorter than 8 bytes, and
\* a rotation or an initialize call with fewer than 2 accounts, produce an
\* error result.
C18_ShortInputsReturnAnError ==
    /\ (last.op = "entrypoint" /\ Len(last.data) < 8) => Result # "Panic"
    /\ ((IsRotateCall \/ last.op = "initialize") /\ Len(last.accounts) < 2)
           => Result # "Panic"

----------------------------------------------------------------------------
\* C19: a rotation call leaves the stored fee_rate as it was, whether it
\* succeeds or fails, and a rotation call that fails leaves the whole record,
\* the fee_wallet included, as it was.
C19_RotationKeepsFeeRate ==
    IsRotateCall =>
        /\ cfgData[1] = last.pre_cfg[1]
        /\ StoredConfig.ok =>
               /\ TryFromSlice(cfgData).ok
               /\ TryFromSlice(cfgData).v.fee_rate = Rate
        /\ Result # "Ok" => cfgData = last.pre_cfg

\* C19 witness: a rotation replaced the wallet of a record whose fee_rate is
\* not zero, and the fee_rate is the same
C19_WalletRotatedRateKept ==
    /\ IsRotateCall
    /\ Result = "Ok"
    /\ Rate # 0
    /\ TryFromSlice(cfgData).v.fee_wallet # StoredConfig.v.fee_wallet
    /\ TryFromSlice(cfgData).v.fee_rate = Rate

----------------------------------------------------------------------------
\* the accounts of the venue invocation
ForwardedAccounts == Cpis[2].accounts

\* C20: the account list of every venue invocation is the call's account
\* list without its first four entries: as many entries, in the same order,
\* each with the identity, the signer flag and the writable flag it came in
\* with.
C20_ForwardedAccountsAreTheSuffix ==
    (IsTradeCall /\ Len(Cpis) = 2) =>
        /\ Len(ForwardedAccounts) = Len(last.accounts) - 4
        /\ \A i \in 1..Len(ForwardedAccounts) :
               /\ ForwardedAccounts[i].key = last.accounts[i + 4].key
               /\ ForwardedAccounts[i].is_signer
                      = last.accounts[i + 4].is_signer
               /\ ForwardedAccounts[i].is_writable
                      = last.accounts[i + 4].is_writable

\* C20 witness: three accounts were forwarded, the first and the third the
\* same account, the second the signing payer passed read-only
C20_ThreeForwardedOneTwice ==
    /\ IsTradeCall
    /\ Len(Cpis) = 2
    /\ Len(ForwardedAccounts) = 3
    /\ ForwardedAccounts[1] = ForwardedAccounts[3]
    /\ ForwardedAccounts[2].key = last.accounts[3].key
    /\ ForwardedAccounts[2].is_signer
    /\ ~ForwardedAccounts[2].is_writable
    /\ ForwardedAccounts[1].is_writable

====
